---- MODULE Spec2Model ----
(***************************************************************************)
(* Model of the request-handling core of src/main.rs: route dispatches a   *)
(* request to handle, handle_with_body, create_post or find_post; the two  *)
(* post handlers share one rusqlite Connection behind a tokio Mutex and    *)
(* all handlers share one read-only Tera registry.                         *)
(*                                                                         *)
(* Text (paths, bodies, rendered output) is a sequence of one-character    *)
(* strings, so that prefix stripping, form decoding, identifier parsing    *)
(* and template rendering are computed, not assumed.  A 128-bit UUID is    *)
(* scaled down to IdDigits digits over HexChars.                           *)
(***************************************************************************)
EXTENDS Integers, Sequences, FiniteSets, TLC

\* ---------------------------------------------------------------- bounds
NumTasks == 2
IdDigits == 1

Tasks == 1..NumTasks
HexChars == <<"0", "1">>
Base == Len(HexChars)
Ids == 0..((Base ^ IdDigits) - 1)

\* ------------------------------------------------------------- text tools
Some(v) == [some |-> TRUE, val |-> v]
None == [some |-> FALSE, val |-> <<>>]

\* str::strip_prefix
StripPrefix(s, p) ==
  IF Len(s) >= Len(p) /\ SubSeq(s, 1, Len(p)) = p
  THEN Some(SubSeq(s, Len(p) + 1, Len(s)))
  ELSE None

\* str::starts_with
StartsWith(s, p) == Len(s) >= Len(p) /\ SubSeq(s, 1, Len(p)) = p

\* str::from_utf8: "xFF" stands for a byte that is not valid UTF-8
FromUtf8(b) == IF \A i \in 1..Len(b) : b[i] # "xFF" THEN Some(b) ELSE None

\* position of the first occurrence of character c in s, 0 when absent
IndexOf(s, c) ==
  IF \E i \in 1..Len(s) : s[i] = c
  THEN CHOOSE i \in 1..Len(s) : s[i] = c /\ \A j \in 1..(i - 1) : s[j] # c
  ELSE 0

RECURSIVE Split(_, _)
Split(s, c) ==
  LET i == IndexOf(s, c)
  IN IF i = 0 THEN <<s>>
     ELSE <<SubSeq(s, 1, i - 1)>> \o Split(SubSeq(s, i + 1, Len(s)), c)

\* ------------------------------------------------------------ identifiers
HexVal(c) == (CHOOSE i \in 1..Base : HexChars[i] = c) - 1
IsHex(c) == \E i \in 1..Base : HexChars[i] = c

RECURSIVE DigitsValue(_)
DigitsValue(ds) ==
  IF Len(ds) = 0 THEN 0
  ELSE Base * DigitsValue(SubSeq(ds, 1, Len(ds) - 1)) + HexVal(ds[Len(ds)])

DigitsOf(i) ==
  [k \in 1..IdDigits |-> HexChars[((i \div (Base ^ (IdDigits - k))) % Base) + 1]]

\* Uuid's Display (id.to_string(), and Serialize into the render context):
\* the hyphenated form, scaled to groups of one digit
IdToString(i) ==
  LET ds == DigitsOf(i)
  IN [k \in 1..((2 * IdDigits) - 1) |-> IF k % 2 = 1 THEN ds[(k + 1) \div 2] ELSE "-"]

\* Uuid::parse_str: accepts the hyphenated and the simple (no hyphen) form
ParseStr(s) ==
  IF Len(s) = (2 * IdDigits) - 1
     /\ \A k \in 1..Len(s) : IF k % 2 = 1 THEN IsHex(s[k]) ELSE s[k] = "-"
  THEN Some(DigitsValue([k \in 1..IdDigits |-> s[(2 * k) - 1]]))
  ELSE IF Len(s) = IdDigits /\ \A k \in 1..Len(s) : IsHex(s[k])
  THEN Some(DigitsValue(s))
  ELSE None

\* ------------------------------------------------------------- form bodies
EQ == "="
AMP == "&"
NAME_EQ == <<"n", "a", "m", "e", "=">>
POST_ID_EQ == <<"p", "o", "s", "t", "_", "i", "d", "=">>
TITLE == <<"t", "i", "t", "l", "e">>
CONTENT == <<"c", "o", "n", "t", "e", "n", "t">>

\* form_urlencoded decoding of one name or value: '+' is a space (the
\* modelled bodies carry no percent escapes)
PlusDecode(v) == [k \in 1..Len(v) |-> IF v[k] = "+" THEN " " ELSE v[k]]

\* the decoder hands out Cow::Borrowed only when nothing had to be decoded:
\* no '+', no percent escape, no invalid UTF-8 to replace
IsBorrowed(v) ==
  /\ \A k \in 1..Len(v) : v[k] \notin {"+", "xFF"}
  /\ ~\E k \in 1..(Len(v) - 2) : v[k] = "%" /\ IsHex(v[k + 1]) /\ IsHex(v[k + 2])

\* one `name=value` piece of the body, split at the first '='
PairOf(piece) ==
  LET i == IndexOf(piece, EQ)
  IN IF i = 0 THEN [name |-> PlusDecode(piece), raw |-> <<>>]
     ELSE [name |-> PlusDecode(SubSeq(piece, 1, i - 1)),
           raw |-> SubSeq(piece, i + 1, Len(piece))]

\* serde_urlencoded::from_bytes::<NewPost>: both fields present exactly once,
\* other fields ignored, and each of title and content must deserialize into
\* a borrowed &str, which a value that needed decoding cannot
FromBytesNewPost(body) ==
  LET pieces == Split(body, AMP)
      pairs == [k \in {j \in 1..Len(pieces) : pieces[j] # <<>>} |-> PairOf(pieces[k])]
      titles == {k \in DOMAIN pairs : pairs[k].name = TITLE}
      contents == {k \in DOMAIN pairs : pairs[k].name = CONTENT}
  IN IF Cardinality(titles) = 1 /\ Cardinality(contents) = 1
     THEN LET t == pairs[CHOOSE k \in titles : TRUE].raw
              c == pairs[CHOOSE k \in contents : TRUE].raw
          IN IF IsBorrowed(t) /\ IsBorrowed(c)
             THEN Some([title |-> t, content |-> c])
             ELSE None
     ELSE None

\* what an HTML form or `curl --data-urlencode` sends for a field value
UrlEncode(v) == [k \in 1..Len(v) |-> IF v[k] = " " THEN "+" ELSE v[k]]
FormBody(title, content) ==
  TITLE \o <<EQ>> \o UrlEncode(title) \o <<AMP>> \o CONTENT \o <<EQ>> \o UrlEncode(content)

\* -------------------------------------------------------------- templates
Text(s) == [kind |-> "text", val |-> s]
Var(n) == [kind |-> "var", val |-> n]

\* a greeting template that drops the punctuation
TemplateNoComma == <<Text(<<"H", "e", "l", "l", "o", " ">>), Var("name")>>

\* "Hello, {{name}}!"
TEMPLATE == <<Text(<<"H", "e", "l", "l", "o", ",", " ">>), Var("name"), Text(<<"!">>)>>

\* "id: {{id}}\ntitle: {{title}}\ncontent: {{content}}"
POST_TEMPLATE ==
  <<Text(<<"i", "d", ":", " ">>), Var("id"),
    Text(<<"\n", "t", "i", "t", "l", "e", ":", " ">>), Var("title"),
    Text(<<"\n", "c", "o", "n", "t", "e", "n", "t", ":", " ">>), Var("content")>>

\* the registry main builds before serving
Registry == [hello |-> TEMPLATE, post |-> POST_TEMPLATE]

RECURSIVE RenderNodes(_, _)
RenderNodes(nodes, ctx) ==
  IF Len(nodes) = 0 THEN <<>>
  ELSE (IF Head(nodes).kind = "text" THEN Head(nodes).val ELSE ctx[Head(nodes).val])
       \o RenderNodes(Tail(nodes), ctx)

\* Tera::render: an error for an unknown template or an unbound variable
Render(reg, name, ctx) ==
  IF name \notin DOMAIN reg THEN None
  ELSE IF \E k \in 1..Len(reg[name]) :
            reg[name][k].kind = "var" /\ reg[name][k].val \notin DOMAIN ctx
  THEN None
  ELSE Some(RenderNodes(reg[name], ctx))

\* Post::render, before its unwrap
PostRender(reg, post) ==
  Render(reg, "post",
         [id |-> IdToString(post.id), title |-> post.title, content |-> post.content])

\* --------------------------------------------------------------- requests
ROOT == <<"/">>
POSTS == <<"/", "p", "o", "s", "t", "s">>
POSTS_SLASH == POSTS \o <<"/">>
POSTS_ONE == POSTS_SLASH \o <<"1">>
ELSEWHERE == <<"/", "x">>

Methods == {"GET", "POST", "PUT"}
GreetBodies == {NAME_EQ \o <<"W">>, NAME_EQ, <<"W">>, NAME_EQ \o <<"xFF">>}

\* title/content pairs a client may submit; the last one contains a space
ValidPairs == {<<(<<"a">>), (<<"b">>)>>, <<(<<"b">>), (<<"a">>)>>, <<(<<"a", " ", "b">>), (<<"a">>)>>}
CreateBodies ==
  {FormBody(p[1], p[2]) : p \in ValidPairs} \cup {TITLE \o <<EQ>> \o <<"a">>}

\* lookups name the lowest and the highest identifier, or no identifier
LookupIds == {0, (Base ^ IdDigits) - 1}
LookupBodies ==
  {POST_ID_EQ \o IdToString(i) : i \in LookupIds} \cup {POST_ID_EQ \o <<"z">>}

\* every method on the paths route names, and for each handler the bodies
\* that tell its outcomes apart
Requests ==
  {[method |-> m, path |-> p, body |-> <<>>] : m \in Methods, p \in {POSTS, POSTS_ONE}}
    \cup {[method |-> "GET", path |-> p, body |-> <<>>] : p \in {POSTS_SLASH, ELSEWHERE}}
    \cup {[method |-> "GET", path |-> ROOT, body |-> b] : b \in GreetBodies}
    \cup {[method |-> m, path |-> ROOT, body |-> b] :
            m \in {"POST", "PUT"}, b \in {NAME_EQ \o <<"W">>, <<"W">>}}
    \cup {[method |-> "POST", path |-> POSTS, body |-> b] : b \in CreateBodies}
    \cup {[method |-> "GET", path |-> POSTS_ONE, body |-> b] : b \in LookupBodies}

NoRequest == [method |-> "", path |-> <<>>, body |-> <<>>]
NoResponse == [status |-> 0, body |-> <<>>]
NoId == 0 - 1
NoTask == 0

\* StatusCode::OK (Response::new) and StatusCode::NOT_FOUND
OK == 200
NOT_FOUND == 404
HELLO_WORLD == <<"H", "e", "l", "l", "o", " ", "W", "o", "r", "l", "d">>

\* ------------------------------------------------------------------ state
VARIABLES
  pc,        \* where each request task is
  req,       \* the request a task is serving
  id,        \* the task's local `id`
  new_post,  \* create_post's decoded NewPost
  res,       \* the Result of the task's store statement
  post,      \* find_post's Option<Post>
  resp,      \* the response the task returned
  posts,     \* the rows of table posts
  locked,    \* the task holding the connection's MutexGuard, or NoTask
  waiters,   \* tasks queued in conn.lock().await, oldest first
  tera,      \* the shared template registry
  seen       \* the create_post tasks that had responded when a lookup arrived

vars == <<pc, req, id, new_post, res, post, resp, posts, locked, waiters, tera, seen>>

Init ==
  /\ pc = [t \in Tasks |-> "idle"]
  /\ req = [t \in Tasks |-> NoRequest]
  /\ id = [t \in Tasks |-> NoId]
  /\ new_post = [t \in Tasks |-> [title |-> <<>>, content |-> <<>>]]
  /\ res = [t \in Tasks |-> ""]
  /\ post = [t \in Tasks |-> None]
  /\ resp = [t \in Tasks |-> NoResponse]
  /\ posts = {}
  /\ locked = NoTask
  /\ waiters = <<>>
  /\ tera = Registry
  /\ seen = [t \in Tasks |-> {}]

\* ------------------------------------------------------------------ route
\* a route whose "/" arms both go to the templated handler
RouteAllTemplated(path, method) ==
  IF path = ROOT THEN "handle_with_body"
  ELSE IF path = POSTS /\ method = "POST" THEN "create_post"
  ELSE IF method = "GET" /\ StartsWith(path, POSTS_SLASH) THEN "find_post"
  ELSE "not_found"

\* a route whose prefix arm forgets the method
RouteAnyMethodPrefix(path, method) ==
  IF path = ROOT /\ method = "GET" THEN "handle_with_body"
  ELSE IF path = ROOT THEN "handle"
  ELSE IF path = POSTS /\ method = "POST" THEN "create_post"
  ELSE IF StartsWith(path, POSTS_SLASH) THEN "find_post"
  ELSE "not_found"

\* a route whose any-method "/" arm comes before the GET "/" arm
RouteWildcardFirst(path, method) ==
  IF path = ROOT THEN "handle"
  ELSE IF path = ROOT /\ method = "GET" THEN "handle_with_body"
  ELSE IF path = POSTS /\ method = "POST" THEN "create_post"
  ELSE IF method = "GET" /\ StartsWith(path, POSTS_SLASH) THEN "find_post"
  ELSE "not_found"

\* the match of route, arm by arm in source order
RouteTarget(path, method) ==
  IF path = ROOT /\ method = "GET" THEN "handle_with_body"
  ELSE IF path = ROOT THEN "handle"
  ELSE IF path = POSTS /\ method = "POST" THEN "create_post"
  ELSE IF method = "GET" /\ StartsWith(path, POSTS_SLASH) THEN "find_post"
  ELSE "not_found"

Respond(t, status, body) ==
  /\ pc' = [pc EXCEPT ![t] = "done"]
  /\ resp' = [resp EXCEPT ![t] = [status |-> status, body |-> body]]

\* a panicking task unwinds and never produces a response
Panic(t) ==
  /\ pc' = [pc EXCEPT ![t] = "panicked"]
  /\ UNCHANGED resp

\* the create_post tasks whose response has been returned
Responded ==
  {u \in Tasks : pc[u] = "done" /\ RouteTarget(req[u].path, req[u].method) = "create_post"}

Route(t) ==
  /\ pc[t] = "idle"
  /\ \E r \in Requests :
       /\ req' = [req EXCEPT ![t] = r]
       /\ seen' = [seen EXCEPT ![t] =
                      IF RouteTarget(r.path, r.method) = "find_post" THEN Responded ELSE {}]
       /\ IF RouteTarget(r.path, r.method) = "not_found"
          THEN Respond(t, NOT_FOUND, <<>>)
          ELSE /\ pc' = [pc EXCEPT ![t] = RouteTarget(r.path, r.method)]
               /\ UNCHANGED resp
  /\ UNCHANGED <<id, new_post, res, post, posts, locked, waiters, tera>>

\* --------------------------------------------------------------- greetings
Handle(t) ==
  /\ pc[t] = "handle"
  /\ Respond(t, OK, HELLO_WORLD)
  /\ UNCHANGED <<req, id, new_post, res, post, posts, locked, waiters, tera, seen>>

\* what handle_with_body computes: None where one of its unwraps panics
Greeting(reg, body) ==
  LET text == FromUtf8(body)
      name == IF text.some THEN StripPrefix(text.val, NAME_EQ) ELSE None
  IN IF name.some THEN Render(reg, "hello", [name |-> name.val]) ELSE None

\* a greeting handler that registers its template again on every request
HandleWithBodyRegisters(t) ==
  /\ pc[t] = "handle_with_body"
  /\ IF Greeting(tera, req[t].body).some
     THEN Respond(t, OK, Greeting(tera, req[t].body).val)
     ELSE Panic(t)
  /\ tera' = [tera EXCEPT !.hello = <<Text(req[t].body)>>]
  /\ UNCHANGED <<req, id, new_post, res, post, posts, locked, waiters, seen>>

HandleWithBody(t) ==
  /\ pc[t] = "handle_with_body"
  /\ IF Greeting(tera, req[t].body).some
     THEN Respond(t, OK, Greeting(tera, req[t].body).val)
     ELSE Panic(t)
  /\ UNCHANGED <<req, id, new_post, res, post, posts, locked, waiters, tera, seen>>

\* -------------------------------------------------------- the tokio Mutex
\* a lock that does not exclude: every caller gets the guard at once
LockNoExclusion(t, held, queued) ==
  /\ locked' = t
  /\ waiters' = waiters
  /\ pc' = [pc EXCEPT ![t] = held]

\* conn.lock().await: taken at once when free, else queued in arrival order
Lock(t, held, queued) ==
  /\ IF locked = NoTask /\ waiters = <<>>
     THEN /\ locked' = t
          /\ waiters' = waiters
          /\ pc' = [pc EXCEPT ![t] = held]
     ELSE /\ waiters' = Append(waiters, t)
          /\ locked' = locked
          /\ pc' = [pc EXCEPT ![t] = queued]

\* a guard that outlives the statement: the drop releases nothing
UnlockedNever == locked

\* dropping the MutexGuard hands the lock to the oldest waiter
Unlocked == IF waiters = <<>> THEN NoTask ELSE Head(waiters)

\* a guard that is dropped only when the statement succeeded: a task whose
\* unwrap panics keeps the lock
UnlockUnlessFailed(t) ==
  /\ locked = t
  /\ locked' = IF res'[t] = "err" THEN locked ELSE Unlocked
  /\ waiters' = IF res'[t] = "err" \/ waiters = <<>> THEN waiters ELSE Tail(waiters)

\* the guard's drop, at the end of the statement or while unwinding
Unlock(t) ==
  /\ locked = t
  /\ locked' = Unlocked
  /\ waiters' = IF waiters = <<>> THEN waiters ELSE Tail(waiters)

\* ------------------------------------------------------------ create_post
\* identifiers Uuid::new_v4 has already returned to a create_post task
Issued ==
  {id[u] : u \in {v \in Tasks : RouteTarget(req[v].path, req[v].method) = "create_post"
                                  /\ id[v] # NoId}}

\* Uuid::new_v4 taken as collision-free: a value it has not returned before
FreshIds == Ids \ Issued

\* up to the first suspension after the body is read: the body is decoded,
\* the identifier generated and the lock requested; `pool` is what new_v4
\* may return
CreatePost(t, pool) ==
  /\ pc[t] = "create_post"
  /\ IF FromBytesNewPost(req[t].body).some
     THEN /\ new_post' = [new_post EXCEPT ![t] = FromBytesNewPost(req[t].body).val]
          /\ \E i \in pool : id' = [id EXCEPT ![t] = i]
          /\ Lock(t, "cp_execute", "cp_wait")
          /\ UNCHANGED resp
     ELSE /\ Panic(t)
          /\ UNCHANGED <<id, new_post, locked, waiters>>
  /\ UNCHANGED <<req, res, post, posts, tera, seen>>

CreateWake(t) ==
  /\ pc[t] = "cp_wait"
  /\ locked = t
  /\ pc' = [pc EXCEPT ![t] = "cp_execute"]
  /\ UNCHANGED <<req, id, new_post, res, post, resp, posts, locked, waiters, tera, seen>>

\* a table without the PRIMARY KEY: only a fault makes the insert fail
InsertFailsOnFaultOnly(rows, row, fault) == fault

\* INSERT INTO posts: id is the PRIMARY KEY, so a row with the same id is a
\* constraint violation; `fault` is any other failure of the statement
InsertFails(rows, row, fault) == fault \/ \E r \in rows : r.id = row.id

\* the rest of the statement: execute, unwrap, and the guard is dropped at
\* its end, by unwinding when unwrap panics
CreateExecute(t, fault) ==
  /\ pc[t] = "cp_execute"
  /\ LET row == [id |-> id[t], title |-> new_post[t].title, content |-> new_post[t].content]
     IN IF InsertFails(posts, row, fault)
        THEN /\ res' = [res EXCEPT ![t] = "err"]
             /\ pc' = [pc EXCEPT ![t] = "panicked"]
             /\ UNCHANGED posts
        ELSE /\ res' = [res EXCEPT ![t] = "ok"]
             /\ pc' = [pc EXCEPT ![t] = "cp_respond"]
             /\ posts' = posts \cup {row}
  /\ Unlock(t)
  /\ UNCHANGED <<req, id, new_post, post, resp, tera, seen>>

CreateRespond(t) ==
  /\ pc[t] = "cp_respond"
  /\ Respond(t, OK, IdToString(id[t]))
  /\ UNCHANGED <<req, id, new_post, res, post, posts, locked, waiters, tera, seen>>

\* -------------------------------------------------------------- find_post
\* the identifier find_post reads from the body: None where an unwrap panics
PostId(body) ==
  LET text == FromUtf8(body)
      rest == IF text.some THEN StripPrefix(text.val, POST_ID_EQ) ELSE None
  IN IF rest.some THEN ParseStr(rest.val) ELSE None

\* up to the first suspension after the body is read: the identifier is
\* parsed and the lock requested
FindPost(t) ==
  /\ pc[t] = "find_post"
  /\ IF PostId(req[t].body).some
     THEN /\ id' = [id EXCEPT ![t] = PostId(req[t].body).val]
          /\ Lock(t, "fp_query_row", "fp_wait")
          /\ UNCHANGED resp
     ELSE /\ Panic(t)
          /\ UNCHANGED <<id, locked, waiters>>
  /\ UNCHANGED <<req, new_post, res, post, posts, tera, seen>>

FindWake(t) ==
  /\ pc[t] = "fp_wait"
  /\ locked = t
  /\ pc' = [pc EXCEPT ![t] = "fp_query_row"]
  /\ UNCHANGED <<req, id, new_post, res, post, resp, posts, locked, waiters, tera, seen>>

\* SELECT ... WHERE id=?1
Selected(rows, i) == {r \in rows : r.id = i}

\* a lookup that takes the row it selects out of the table
FindQueryRowTake(t, fault) ==
  /\ pc[t] = "fp_query_row"
  /\ res' = [res EXCEPT ![t] = "ok"]
  /\ pc' = [pc EXCEPT ![t] = "fp_respond"]
  /\ post' = [post EXCEPT ![t] = None]
  /\ posts' = posts \ Selected(posts, id[t])
  /\ Unlock(t)
  /\ UNCHANGED <<req, id, new_post, resp, tera, seen>>

\* the rest of the statement: query_row(..).optional() gives the first
\* selected row mapped into a Post, Ok(None) when no row is selected, Err
\* when the statement fails; unwrap, and the guard is dropped at its end, by
\* unwinding when unwrap panics
FindQueryRow(t, fault) ==
  /\ pc[t] = "fp_query_row"
  /\ IF fault
     THEN /\ res' = [res EXCEPT ![t] = "err"]
          /\ pc' = [pc EXCEPT ![t] = "panicked"]
          /\ UNCHANGED post
     ELSE /\ res' = [res EXCEPT ![t] = "ok"]
          /\ pc' = [pc EXCEPT ![t] = "fp_respond"]
          /\ IF Selected(posts, id[t]) = {}
             THEN post' = [post EXCEPT ![t] = None]
             ELSE \E r \in Selected(posts, id[t]) :
                    post' = [post EXCEPT ![t] =
                               Some([id |-> r.id, title |-> r.title, content |-> r.content])]
  /\ Unlock(t)
  /\ UNCHANGED <<req, id, new_post, resp, posts, tera, seen>>

\* a missing row answered like a found one
NoRowStatusOk == OK

\* the status find_post answers with when no row was found
NoRowStatus == NOT_FOUND

\* match post: the rendered post, or 404 with an empty body
FindRespond(t) ==
  /\ pc[t] = "fp_respond"
  /\ IF post[t].some
     THEN IF PostRender(tera, post[t].val).some
          THEN Respond(t, OK, PostRender(tera, post[t].val).val)
          ELSE Panic(t)
     ELSE Respond(t, NoRowStatus, <<>>)
  /\ UNCHANGED <<req, id, new_post, res, post, posts, locked, waiters, tera, seen>>

\* ----------------------------------------------------------- cancellation
\* the .await points of the handlers: the body read (to_bytes) and
\* conn.lock(); a task is dropped only while suspended at one of them
AtBodyRead(t) == pc[t] \in {"handle_with_body", "create_post", "find_post"}
AtLockAwait(t) == pc[t] \in {"cp_wait", "fp_wait"}

\* the queue without t
Dequeued(t) == SelectSeq(waiters, LAMBDA w : w # t)

\* a drop that may come at any point of the handler and runs no destructor
CancelAnywhere(t) ==
  /\ pc[t] \notin {"idle", "done", "panicked", "cancelled"}
  /\ pc' = [pc EXCEPT ![t] = "cancelled"]
  /\ waiters' = Dequeued(t)
  /\ UNCHANGED <<req, id, new_post, res, post, resp, posts, locked, tera, seen>>

\* the client disconnects and the server drops the request's future. At
\* the body read nothing is held. At conn.lock() the pending acquire is
\* dropped: it leaves the queue, or, when the lock had already been handed
\* to it, gives it on to the next waiter.
Cancel(t) ==
  /\ AtBodyRead(t) \/ AtLockAwait(t)
  /\ pc' = [pc EXCEPT ![t] = "cancelled"]
  /\ IF locked = t
     THEN /\ locked' = Unlocked
          /\ waiters' = IF waiters = <<>> THEN waiters ELSE Tail(waiters)
     ELSE /\ locked' = locked
          /\ waiters' = Dequeued(t)
  /\ UNCHANGED <<req, id, new_post, res, post, resp, posts, tera, seen>>

\* --------------------------------------------------------- specifications
\* Spec: identifiers never repeat and store statements fail only on a
\* constraint violation.
Next ==
  \E t \in Tasks :
    \/ Route(t)
    \/ Handle(t)
    \/ HandleWithBody(t)
    \/ CreatePost(t, FreshIds)
    \/ CreateWake(t)
    \/ CreateExecute(t, FALSE)
    \/ CreateRespond(t)
    \/ FindPost(t)
    \/ FindWake(t)
    \/ FindQueryRow(t, FALSE)
    \/ FindRespond(t)

Spec == Init /\ [][Next]_vars

\* FaultSpec: new_v4 may return any identifier, also one it returned before,
\* and a store statement may fail for a reason of its own (I/O, memory).
FaultNext ==
  \E t \in Tasks :
    \/ Route(t)
    \/ Handle(t)
    \/ HandleWithBody(t)
    \/ CreatePost(t, Ids)
    \/ CreateWake(t)
    \/ \E fault \in BOOLEAN : CreateExecute(t, fault)
    \/ CreateRespond(t)
    \/ FindPost(t)
    \/ FindWake(t)
    \/ \E fault \in BOOLEAN : FindQueryRow(t, fault)
    \/ FindRespond(t)

FaultSpec == Init /\ [][FaultNext]_vars

\* LiveSpec: as Spec, with the runtime's scheduling: a request task that can
\* take its next step is eventually polled and takes it. A task can step
\* unless it has not started, has ended, or waits for a lock it has not been
\* handed. Nothing obliges a client to send a request, so Route is not
\* among the fair steps.
Runnable(t) ==
  /\ pc[t] \notin {"idle", "done", "panicked", "cancelled"}
  /\ pc[t] \in {"cp_wait", "fp_wait"} => locked = t

Polled(t) ==
  /\ Runnable(t)
  /\ \E p \in {"cp_wait", "cp_execute", "cp_respond", "fp_wait", "fp_query_row",
              "fp_respond", "done", "panicked"} :
       p # pc[t] /\ pc' = [pc EXCEPT ![t] = p]

LiveSpec == Spec /\ \A t \in Tasks : WF_pc(Polled(t))

\* CancelSpec: as Spec, and a client may disconnect while its request is
\* being served.
CancelNext ==
  \/ Next
  \/ \E t \in Tasks : Cancel(t)

CancelSpec == Init /\ [][CancelNext]_vars

\* ------------------------------------------------------------ properties
Target(t) == RouteTarget(req[t].path, req[t].method)
Arrived(t) == req[t] # NoRequest
Ended(t) == pc[t] \in {"done", "panicked"}

\* a task is inside its store statement from the moment it has the guard
\* until the guard is dropped
InStatement(t) == pc[t] \in {"cp_execute", "fp_query_row"}
AtLock(t) == pc[t] \in {"cp_wait", "fp_wait"}
Queued == {waiters[k] : k \in 1..Len(waiters)}

\* C1: at most one task is inside a store statement (INSERT or SELECT) at a
\* time and that task holds the lock; every queued task is suspended at
\* lock acquisition, and tasks are queued only while another task holds the
\* lock.
C1_MutualExclusion ==
  /\ Cardinality({t \in Tasks : InStatement(t)}) <= 1
  /\ \A t \in Tasks : InStatement(t) => locked = t
  /\ \A t \in Queued : AtLock(t) /\ locked # t /\ locked # NoTask
  /\ \A t \in Tasks : AtLock(t) => (t \in Queued \/ locked = t)

C1_Witness ==
  \E t, u \in Tasks :
    /\ pc[t] = "cp_execute" /\ locked = t
    /\ pc[u] = "fp_wait" /\ u \in Queued

\* C2: a task has the lock only inside its store statement (or when the lock
\* has just been handed to it at lock acquisition); once the statement is
\* left, on success, on no row and on failure alike, the task neither holds
\* nor waits for the lock, so it never holds it while decoding the body,
\* rendering or building the response.
C2_LockOnlyInStatement ==
  \A t \in Tasks :
    /\ locked = t => (InStatement(t) \/ AtLock(t))
    /\ ~(InStatement(t) \/ AtLock(t)) => (locked # t /\ t \notin Queued)

C2_Witness ==
  \E t, u \in Tasks :
    /\ pc[t] = "panicked" /\ res[t] = "err"
    /\ pc[u] = "fp_respond" /\ res[u] = "ok" /\ ~post[u].some
    /\ locked = NoTask

\* substring test
Contains(s, sub) ==
  \E i \in 1..((Len(s) - Len(sub)) + 1) : SubSeq(s, i, (i + Len(sub)) - 1) = sub

ValidBodies == {FormBody(p[1], p[2]) : p \in ValidPairs}
Submitted(body) == CHOOSE p \in ValidPairs : FormBody(p[1], p[2]) = body

\* the create-record requests with a valid title and content
Creators ==
  {t \in Tasks : req[t].method = "POST" /\ req[t].path = POSTS /\ req[t].body \in ValidBodies}
IsLookup(t) == req[t].method = "GET" /\ StartsWith(req[t].path, POSTS_SLASH)

\* C3: every create-record request with a valid title and content returns
\* an identifier, the identifiers returned are pairwise distinct, and once
\* all of them have ended each returned identifier selects exactly one row,
\* holding the title and content that request submitted.
C3_ConcurrentCreates ==
  /\ \A t \in Creators : pc[t] # "panicked"
  /\ \A t \in Creators :
       pc[t] = "done" => (resp[t].status = 200 /\ ParseStr(resp[t].body).some)
  /\ \A t, u \in Creators :
       (t # u /\ pc[t] = "done" /\ pc[u] = "done") => resp[t].body # resp[u].body
  /\ (\A t \in Creators : Ended(t)) =>
       \A t \in Creators :
         pc[t] = "done" =>
           Selected(posts, ParseStr(resp[t].body).val)
             = {[id |-> ParseStr(resp[t].body).val,
                 title |-> Submitted(req[t].body)[1],
                 content |-> Submitted(req[t].body)[2]]}

\* C4: a create-record request with a valid title and content ends with
\* status 200 and a well-formed identifier as body, and a lookup of that
\* identifier that arrives after this response ends with status 200 and a
\* body containing the identifier, the title and the content.
C4_RoundTrip ==
  /\ \A c \in Creators :
       Ended(c) => (pc[c] = "done" /\ resp[c].status = 200 /\ ParseStr(resp[c].body).some)
  /\ \A f \in Tasks : \A c \in seen[f] \cap Creators :
       (IsLookup(f) /\ req[f].body = POST_ID_EQ \o resp[c].body /\ Ended(f)) =>
         /\ pc[f] = "done"
         /\ resp[f].status = 200
         /\ Contains(resp[f].body, resp[c].body)
         /\ Contains(resp[f].body, Submitted(req[c].body)[1])
         /\ Contains(resp[f].body, Submitted(req[c].body)[2])

\* C5: a lookup whose well-formed identifier selects no row gets Ok(None)
\* from the store, not an error; it then ends with status 404 and an empty
\* body, without panicking, with the lock released, and no step of a lookup
\* changes the table.
C5_NotFound ==
  /\ [][\A t \in Tasks :
          (pc[t] = "fp_query_row" /\ pc'[t] # pc[t] /\ Selected(posts, id[t]) = {}) =>
            (res'[t] = "ok" /\ ~post'[t].some /\ pc'[t] = "fp_respond" /\ locked' # t)]_vars
  /\ [][\A t \in Tasks :
          (pc[t] = "fp_respond" /\ pc'[t] # pc[t] /\ ~post[t].some) =>
            (pc'[t] = "done" /\ resp'[t] = [status |-> 404, body |-> <<>>]
               /\ locked' # t /\ t \notin {waiters'[k] : k \in 1..Len(waiters')})]_vars
  /\ [][\A t \in Tasks :
          (Arrived(t) /\ IsLookup(t) /\ pc'[t] # pc[t]) => posts' = posts]_vars

C5_Witness ==
  \E t \in Tasks :
    /\ IsLookup(t) /\ PostId(req[t].body).some
    /\ pc[t] = "done" /\ resp[t].status = 404
    /\ posts # {} /\ locked = NoTask

\* C6: a lookup whose body lacks the post_id= prefix, or whose identifier is
\* not well formed, ends with status 400.
C6_MalformedLookup ==
  \A t \in Tasks :
    (Arrived(t) /\ IsLookup(t) /\ ~PostId(req[t].body).some /\ Ended(t)) =>
      (pc[t] = "done" /\ resp[t].status = 400)

\* C7: a POST to / whose body does not start with name= ends with status 400.
C7_MissingNamePrefix ==
  \A t \in Tasks :
    (req[t].method = "POST" /\ req[t].path = ROOT
       /\ ~StartsWith(req[t].body, NAME_EQ) /\ Ended(t)) =>
      (pc[t] = "done" /\ resp[t].status = 400)

\* "Hello, X!"
HelloX(x) == <<"H", "e", "l", "l", "o", ",", " ">> \o x \o <<"!">>
NamedBody(t) ==
  FromUtf8(req[t].body).some /\ StartsWith(req[t].body, NAME_EQ)
NameOf(t) == SubSeq(req[t].body, Len(NAME_EQ) + 1, Len(req[t].body))

HelloWorldResponse ==
  [status |-> 200, body |-> <<"H", "e", "l", "l", "o", " ", "W", "o", "r", "l", "d">>]

NotFoundResponse == [status |-> 404, body |-> <<>>]

IsCreate(t) == req[t].method = "POST" /\ req[t].path = POSTS

\* C11: a POST to /posts whose body does not hold the form fields title and
\* content (a field missing, an empty body) ends with status 400, and it
\* never has an identifier and never holds or waits for the lock.
C11_UndecodableCreate ==
  \A t \in Tasks :
    (IsCreate(t) /\ req[t].body \notin ValidBodies) =>
      /\ id[t] = NoId
      /\ locked # t /\ t \notin Queued
      /\ Ended(t) => (pc[t] = "done" /\ resp[t].status = 400)

\* C12: a task whose store statement failed (constraint violation, I/O
\* error) does not panic: it ends with status 500, and it has released the
\* lock.
C12_StatementFailureIs500 ==
  \A t \in Tasks :
    res[t] = "err" =>
      /\ locked # t /\ t \notin Queued
      /\ pc[t] # "panicked"
      /\ Ended(t) => resp[t].status = 500

\* C13: whatever its method, path and body, no request task panics, and a
\* task that has ended has returned a response with an HTTP status.
C13_RouteTotal ==
  \A t \in Tasks :
    /\ pc[t] # "panicked"
    /\ Ended(t) => resp[t].status \in {200, 400, 404, 500}

\* the record a create_post task inserts
RowOf(t) == [id |-> id[t], title |-> new_post[t].title, content |-> new_post[t].content]

\* the response a task's handler gives when nothing interferes with it
RespondsAsAlone(u) ==
  CASE Target(u) = "not_found" -> resp[u] = [status |-> 404, body |-> <<>>]
    [] Target(u) = "handle" -> resp[u] = HelloWorldResponse
    [] Target(u) = "handle_with_body" ->
         resp[u] = [status |-> 200, body |-> HelloX(NameOf(u))]
    [] Target(u) = "create_post" ->
         /\ resp[u] = [status |-> 200, body |-> IdToString(id[u])]
         /\ RowOf(u) \in posts
    [] Target(u) = "find_post" ->
         \/ resp[u] = [status |-> 404, body |-> <<>>]
         \/ \E r \in Selected(posts, id[u]) :
              resp[u] = [status |-> 200, body |-> PostRender(Registry, r).val]

\* C14: a failing request is isolated. The step in which a task fails (body
\* parse, identifier parse, store statement, render) changes neither the
\* table nor anything of another task, and leaves the lock free or handed
\* to the oldest waiter; a failed task never holds or waits for the lock;
\* every row of the table is the whole record of a task whose insert
\* succeeded; and every task that has responded gave the response its
\* handler gives alone.
C14_FailureIsolation ==
  /\ [][\A t \in Tasks :
          (pc[t] # "panicked" /\ pc'[t] = "panicked") =>
            /\ posts' = posts
            /\ locked' # t
            /\ \A k \in 1..Len(waiters') : waiters'[k] # t
            /\ locked' \in {locked, NoTask} \cup (IF waiters = <<>> THEN {} ELSE {Head(waiters)})
            /\ \A u \in Tasks \ {t} :
                 /\ pc'[u] = pc[u] /\ req'[u] = req[u] /\ id'[u] = id[u]
                 /\ new_post'[u] = new_post[u] /\ res'[u] = res[u]
                 /\ post'[u] = post[u] /\ resp'[u] = resp[u]]_vars
  /\ [](\A t \in Tasks : pc[t] = "panicked" => (locked # t /\ t \notin Queued))
  /\ [](\A r \in posts : \E t \in Tasks : IsCreate(t) /\ res[t] = "ok" /\ r = RowOf(t))
  /\ [](\A u \in Tasks : pc[u] = "done" => RespondsAsAlone(u))

\* a create_post failed in its statement while another create_post was
\* queued: the unwinding handed the lock to the waiter and no row was left
C14_Witness ==
  \E t, u \in Tasks :
    /\ IsCreate(t) /\ pc[t] = "panicked" /\ res[t] = "err"
    /\ IsCreate(u) /\ pc[u] = "cp_wait" /\ locked = u
    /\ posts = {}

Cancelled(t) == pc[t] = "cancelled"

\* C15: a request is dropped only while suspended at the body read or at
\* lock acquisition, never between getting the guard and dropping it; a
\* task that has the guard finishes its statement and releases the lock in
\* that same step; a dropped task neither holds nor waits for the lock and
\* a free lock has no waiters; every row of the table is the whole record
\* of a task whose insert completed.
C15_CancelOnlyAtSuspension ==
  /\ [][\A t \in Tasks :
          (~Cancelled(t) /\ Cancelled(t)') =>
            /\ pc[t] \in {"handle_with_body", "create_post", "find_post", "cp_wait", "fp_wait"}
            /\ posts' = posts]_vars
  /\ [][\A t \in Tasks :
          (InStatement(t) /\ pc'[t] # pc[t]) =>
            (res'[t] \in {"ok", "err"} /\ ~Cancelled(t)' /\ locked' # t)]_vars
  /\ [](\A t \in Tasks : Cancelled(t) => (locked # t /\ t \notin Queued))
  /\ [](locked = NoTask => waiters = <<>>)
  /\ [](\A r \in posts : \E t \in Tasks : IsCreate(t) /\ res[t] = "ok" /\ r = RowOf(t))

\* a create_post was dropped while it waited for the lock; the lookup that
\* contended with it ran its statement and released the lock
C15_Witness ==
  \E t, u \in Tasks :
    /\ IsCreate(t) /\ Cancelled(t) /\ id[t] # NoId /\ res[t] = ""
    /\ IsLookup(u) /\ pc[u] = "fp_respond" /\ res[u] = "ok"
    /\ locked = NoTask /\ waiters = <<>>

\* C16: under fair scheduling every task waiting for the lock eventually has
\* it in its statement, every task in its statement eventually releases the
\* lock, and every request that arrived eventually ends with a response;
\* while a task waits for the lock, a live task holds it.
C16_Progress ==
  /\ \A t \in Tasks : AtLock(t) ~> InStatement(t)
  /\ \A t \in Tasks : InStatement(t) ~> (locked # t)
  /\ \A t \in Tasks : Arrived(t) ~> (pc[t] = "done")
  /\ []((\E t \in Tasks : AtLock(t)) => (locked # NoTask /\ pc[locked] \notin {"done", "panicked"}))

\* the step in which route dispatches task t's request
Dispatched(t) == pc[t] = "idle" /\ pc'[t] # "idle"

\* the exact (method, path) entries of the dispatch table as the claim has it
ClaimedExact == {<<"GET", ROOT>>, <<"POST", ROOT>>, <<"POST", POSTS>>}

Entries ==
  << [method |-> "GET", path |-> ROOT, prefix |-> FALSE, to |-> "handle_with_body"],
     [method |-> "*", path |-> ROOT, prefix |-> FALSE, to |-> "handle"],
     [method |-> "POST", path |-> POSTS, prefix |-> FALSE, to |-> "create_post"],
     [method |-> "GET", path |-> POSTS_SLASH, prefix |-> TRUE, to |-> "find_post"] >>

EntryMatches(e, r) ==
  /\ e.method \in {"*", r.method}
  /\ IF e.prefix THEN StartsWith(r.path, e.path) ELSE r.path = e.path

Matching(r) == {k \in 1..Len(Entries) : EntryMatches(Entries[k], r)}

C18_StoreOnlyGrows ==
  [][/\ posts \subseteq posts'
     /\ \A r \in posts : \A q \in posts' : q.id = r.id => q = r
     /\ posts' # posts =>
          \E t \in Tasks :
            /\ IsCreate(t) /\ pc[t] = "cp_execute"
            /\ pc'[t] = "cp_respond" /\ res'[t] = "ok"
            /\ RowOf(t) \notin posts
            /\ posts' = posts \cup {RowOf(t)}]_vars

\* a record was stored, and a lookup that found it left it in the table
C18_Witness ==
  \E t, u \in Tasks :
    /\ IsCreate(t) /\ res[t] = "ok" /\ posts = {RowOf(t)}
    /\ IsLookup(u) /\ pc[u] = "done" /\ resp[u].status = 200 /\ id[u] = id[t]

\* the steps in which a task renders a template
Renders(t) ==
  \/ pc[t] = "handle_with_body" /\ pc'[t] = "done"
  \/ pc[t] = "fp_respond" /\ post[t].some /\ pc'[t] = "done"

\* C19: the registry holds the templates hello and post as registered at
\* startup in every reachable state and no step changes it; a task that
\* renders does so without the lock, and what it renders is the text the
\* startup registry gives for its template and context, whatever the state.
C19_RegistryFixed ==
  /\ [](DOMAIN tera = {"hello", "post"} /\ tera.hello = TEMPLATE /\ tera.post = POST_TEMPLATE)
  /\ [][tera' = tera]_vars
  /\ [][\A t \in Tasks :
          Renders(t) =>
            /\ locked # t /\ locked' = locked /\ waiters' = waiters
            /\ resp'[t].body =
                 IF pc[t] = "handle_with_body"
                 THEN RenderNodes(TEMPLATE, [name |-> NameOf(t)])
                 ELSE PostRender(Registry, post[t].val).val]_vars

\* the same template rendered with the same context by two requests, one
\* after the other, gave the same text
C19_Witness ==
  \E t, u \in Tasks :
    /\ t # u
    /\ Target(t) = "handle_with_body" /\ Target(u) = "handle_with_body"
    /\ req[t].body = req[u].body
    /\ pc[t] = "done" /\ pc[u] = "done" /\ resp[t].body = resp[u].body
    /\ tera = Registry

\* C20: no two stored records share an identifier, also when new_v4 repeats
\* a value. A task's identifier is set once, by create_post's own step, to a
\* generated value and the request is not consulted or changed; an insert
\* whose identifier is already stored fails and leaves the table, and so the
\* stored record, as it was.
C20_UniqueIds ==
  /\ [](\A r, q \in posts : r.id = q.id => r = q)
  /\ [][\A t \in Tasks :
          (IsCreate(t) /\ id'[t] # id[t]) =>
            /\ pc[t] = "create_post" /\ id[t] = NoId
            /\ id'[t] \in Ids /\ req'[t] = req[t]]_vars
  /\ [][\A t \in Tasks :
          (pc[t] = "cp_execute" /\ pc'[t] # pc[t] /\ Selected(posts, id[t]) # {}) =>
            (res'[t] = "err" /\ posts' = posts)]_vars

\* new_v4 gave a second request the identifier of a stored record: its
\* insert failed and the stored record is the first request's
C20_Witness ==
  \E t, u \in Tasks :
    /\ IsCreate(t) /\ res[t] = "ok"
    /\ IsCreate(u) /\ res[u] = "err" /\ id[u] = id[t] /\ new_post[u] # new_post[t]
    /\ posts = {RowOf(t)}

====
